---- MODULE Spec2Model ----
(***************************************************************************)
(* Model of 2016/example_marginal_rates_joint.py: the finite-difference    *)
(* rate function calc_rates, its vectorised sweep over an income grid, and *)
(* the slider-driven update cycle that pushes the swept arrays to the plot *)
(* lines.                                                                  *)
(*                                                                         *)
(* Numbers.  Python floats are modelled as exact rationals (IEEE rounding  *)
(* is not modelled).  Arguments (income, ltcg, re_tax, mortgage interest,  *)
(* AMT basis adjustment, DELTA) are whole currency units.  A spouse ratio  *)
(* r stands for r / RATIO_DEN, so a per-earner wage is an integer number   *)
(* of 1/RATIO_DEN currency units; every derived field keeps its own fixed  *)
(* point scale, stated where it is built.                                  *)
(***************************************************************************)
EXTENDS Integers, Sequences, FiniteSets, TLC

VARIABLES
    eng,        \* the Tax Engine variant behind F1040 (a black box to this program)
    args,       \* arguments of the calc_rates call / sweep under study
    grid,       \* income grid handed to the vectorised calc_rates
    result,     \* outcome of the call / sweep
    pc,         \* position of the single thread of control
    sliders,    \* .val of the four Slider widgets
    inputs,     \* the dict built at the top of update()
    ydata,      \* y data of the five plot lines (the sink), by rate kind
    delivered,  \* kinds whose set_ydata ran in the current cycle, in order
    cycles,     \* number of update() invocations begun
    changes,    \* number of slider changes so far
    draws,      \* number of fig.canvas.draw_idle() requests
    cycle_start,\* ydata and draws as they were when the current cycle began
    failed      \* kind whose sweep raised in the current cycle, or "none"

vars == <<eng, args, grid, result, pc, sliders, inputs, ydata, delivered,
          cycles, changes, draws, cycle_start, failed>>

---------------------------------------------------------------------------
(* Program constants *)

SOCIAL_SECURITY_MAX == 117000
\* MEDICARE_RATE = .0145, as a numerator over MEDICARE_DEN
MEDICARE_RATE == 145
MEDICARE_DEN == 10000
DELTA == 10
\* denominator of the spouse ratio: ratio=0.5 is 5 / RATIO_DEN
RATIO_DEN == 10
\* line 48: (sum(incomes) + capital_gains) * .10, as a numerator over RATIO_DEN
STATE_WITHHOLDING_RATE == 1
MIN_RE_TAX == 0
MIN_LTCG == 0
MIN_WAGES == 10000
WAGES_STEP == 10000

template == [status |-> "JOINT", exemptions |-> 2, disable_rounding |-> TRUE]

Kind_LTCG == "LTCG_MARGINAL"
Kind_INT == "INT_DEDUCTION_MARGINAL"
Kind_RE == "RE_DEDUCTION_MARGINAL"
Kind_WAGE == "MARGINAL"
Kind_EFF == "EFFECTIVE"
Kind_TOTAL == "TOTAL"

RateKinds == {Kind_LTCG, Kind_INT, Kind_RE, Kind_WAGE, Kind_EFF, Kind_TOTAL}
MarginalKinds == {Kind_LTCG, Kind_INT, Kind_RE, Kind_WAGE}

---------------------------------------------------------------------------
(* Float arithmetic as exact rationals [num, den], den > 0, in lowest terms *)

Abs(x) == IF x < 0 THEN -x ELSE x

RECURSIVE GCD(_, _)
GCD(a, b) == IF b = 0 THEN a ELSE GCD(b, a % b)

\* the float n / d, d # 0
Rat(n, d) ==
    LET g == GCD(Abs(n), Abs(d))
        s == IF d < 0 THEN -1 ELSE 1
    IN  [num |-> s * (n \div g), den |-> s * (d \div g)]

\* placeholder where no float exists (a call that raised)
NoValue == [num |-> 0, den |-> 0]

---------------------------------------------------------------------------
(* The Tax Engine, F1040(inputs): outside this program.  A variant is      *)
(* [pct, pct2, bracket, reject, limit]: it rejects a record (raises)       *)
(* according to reject and limit, and otherwise yields line '63'.          *)

EngineError == "InvalidFilingInput"

EngineRejects(e, rec) ==
    CASE e.reject = "none" -> FALSE
      [] e.reject = "negative_wages" -> rec.wages[1] < 0 \/ rec.wages[2] < 0
      [] e.reject = "wages_over" ->
            rec.wages[1] + rec.wages[2] > e.limit * RATIO_DEN
      [] e.reject = "capital_gain_over" -> rec.capital_gain_long > e.limit
      [] e.reject = "mortgage_over" -> rec.F1040sa.l10 > e.limit
      [] e.reject = "real_estate_over" -> rec.real_estate_taxes > e.limit

\* line '63' in 1/(100 * RATIO_DEN) currency units: of the taxable amount
\* (in 1/RATIO_DEN units) pct % up to the bracket and pct2 % above it,
\* nothing below zero
EngineLine63(e, rec) ==
    LET taxable == rec.wages[1] + rec.wages[2]
                   + RATIO_DEN * (rec.capital_gain_long + rec.amt_basis_adjustment)
                   - RATIO_DEN * (rec.real_estate_taxes + rec.F1040sa.l10)
                   - (rec.state_withholding \div RATIO_DEN)
        top == e.bracket * RATIO_DEN
    IN  IF taxable <= 0 THEN 0
        ELSE IF taxable <= top THEN e.pct * taxable
        ELSE e.pct * top + e.pct2 * (taxable - top)

Line63Den == 100 * RATIO_DEN

\* F1040(inputs): [ok, l63]
F1040(e, rec) ==
    IF EngineRejects(e, rec) THEN [ok |-> FALSE, l63 |-> 0]
    ELSE [ok |-> TRUE, l63 |-> EngineLine63(e, rec)]

---------------------------------------------------------------------------
(* calc_spouse_split and compute_with_income *)

\* [total_income * ratio, total_income * (1 - ratio)], in 1/RATIO_DEN units
calc_spouse_split(total_income, ratio) ==
    <<total_income * ratio, total_income * (RATIO_DEN - ratio)>>

Min(a, b) == IF a <= b THEN a ELSE b

\* FilingInputs with the Social-Security cap applied to the couple's combined
\* wages instead of earner by earner
FilingInputs_TotalCap(tmpl, a) ==
    LET first == Min(SOCIAL_SECURITY_MAX * RATIO_DEN, a.incomes[1])
    IN  [status |-> tmpl.status,
         exemptions |-> tmpl.exemptions,
         disable_rounding |-> tmpl.disable_rounding,
         real_estate_taxes |-> a.re_tax,
         wages |-> a.incomes,
         wages_medicare |-> a.incomes,
         medicare_withheld |-> <<a.incomes[1] * MEDICARE_RATE,
                                 a.incomes[2] * MEDICARE_RATE>>,
         wages_ss |-> <<first,
                        Min(SOCIAL_SECURITY_MAX * RATIO_DEN - first,
                            a.incomes[2])>>,
         state_withholding |->
             (a.incomes[1] + a.incomes[2] + a.capital_gains * RATIO_DEN)
                 * STATE_WITHHOLDING_RATE,
         capital_gain_long |-> a.capital_gains,
         amt_basis_adjustment |-> a.amt_basis_adj,
         F1040sa |-> [l10 |-> a.mortgage_interest]]

\* lines 40-53: the record handed to F1040.
\*   wages, wages_medicare, wages_ss: 1/RATIO_DEN units
\*   medicare_withheld: 1/(RATIO_DEN * MEDICARE_DEN) units
\*   state_withholding: 1/(RATIO_DEN * RATIO_DEN) units
\*   the other amounts: whole units
FilingInputs(tmpl, a) ==
    [status |-> tmpl.status,
     exemptions |-> tmpl.exemptions,
     disable_rounding |-> tmpl.disable_rounding,
     real_estate_taxes |-> a.re_tax,
     wages |-> a.incomes,
     wages_medicare |-> a.incomes,
     medicare_withheld |-> <<a.incomes[1] * MEDICARE_RATE,
                             a.incomes[2] * MEDICARE_RATE>>,
     wages_ss |-> <<Min(SOCIAL_SECURITY_MAX * RATIO_DEN, a.incomes[1]),
                    Min(SOCIAL_SECURITY_MAX * RATIO_DEN, a.incomes[2])>>,
     state_withholding |->
         (a.incomes[1] + a.incomes[2] + a.capital_gains * RATIO_DEN)
             * STATE_WITHHOLDING_RATE,
     capital_gain_long |-> a.capital_gains,
     amt_basis_adjustment |-> a.amt_basis_adj,
     F1040sa |-> [l10 |-> a.mortgage_interest]]

\* compute_with_income(template, **a): the record built and the form F1040
\* made of it (no try/except: a rejection leaves as ok = FALSE)
compute_with_income(e, tmpl, a) ==
    LET rec == FilingInputs(tmpl, a)
    IN  [inputs |-> rec, form |-> F1040(e, rec)]

---------------------------------------------------------------------------
(* calc_rates: one grid point *)

\* lines 73-78: a is [re_tax, ltcg, amt_basis_adj, mortgage_interest, rate,
\* spouse_ratio]
BaseArgs(income, a) ==
    [incomes |-> calc_spouse_split(income, a.spouse_ratio),
     capital_gains |-> a.ltcg,
     amt_basis_adj |-> a.amt_basis_adj,
     mortgage_interest |-> a.mortgage_interest,
     re_tax |-> a.re_tax]

\* NextArgs whose mortgage-interest branch also moves re_tax
NextArgs_AlsoReTax(base_args, income, a) ==
    CASE a.rate = Kind_LTCG ->
            [base_args EXCEPT !.capital_gains = @ + DELTA]
      [] a.rate = Kind_INT ->
            [base_args EXCEPT !.mortgage_interest = @ + DELTA,
                              !.re_tax = @ + DELTA]
      [] a.rate = Kind_RE ->
            [base_args EXCEPT !.re_tax = @ + DELTA]
      [] a.rate = Kind_WAGE ->
            [base_args EXCEPT
                !.incomes = calc_spouse_split(income + DELTA, a.spouse_ratio)]

\* NextArgs whose wage branch adds DELTA to the first earner alone
NextArgs_OneEarner(base_args, income, a) ==
    CASE a.rate = Kind_LTCG ->
            [base_args EXCEPT !.capital_gains = @ + DELTA]
      [] a.rate = Kind_INT ->
            [base_args EXCEPT !.mortgage_interest = @ + DELTA]
      [] a.rate = Kind_RE ->
            [base_args EXCEPT !.re_tax = @ + DELTA]
      [] a.rate = Kind_WAGE ->
            [base_args EXCEPT !.incomes[1] = @ + DELTA * RATIO_DEN]

\* lines 80-94: next_args = base_args.copy(), then the one entry the rate
\* kind names is replaced
NextArgs(base_args, income, a) ==
    CASE a.rate = Kind_LTCG ->
            [base_args EXCEPT !.capital_gains = @ + DELTA]
      [] a.rate = Kind_INT ->
            [base_args EXCEPT !.mortgage_interest = @ + DELTA]
      [] a.rate = Kind_RE ->
            [base_args EXCEPT !.re_tax = @ + DELTA]
      [] a.rate = Kind_WAGE ->
            [base_args EXCEPT
                !.incomes = calc_spouse_split(income + DELTA, a.spouse_ratio)]

\* float(fnext['63'] - fbase['63']) / DELTA
ForwardDifference(fnext63, fbase63) ==
    Rat(fnext63 - fbase63, DELTA * Line63Den)

\* EffectiveRate dividing by the wage income alone
EffectiveRate_IncomeOnly(fbase63, income, ltcg) ==
    IF income = 0 THEN NoValue ELSE Rat(fbase63, income * Line63Den)

\* fbase['63'] / (income + ltcg), income + ltcg # 0
EffectiveRate(fbase63, income, ltcg) ==
    Rat(fbase63, (income + ltcg) * Line63Den)

\* fbase['63']
TotalLiability(fbase63) == Rat(fbase63, Line63Den)

Return(v, calls) ==
    [kind |-> "return", val |-> v, err |-> "none", calls |-> calls]

Raise(err, calls) ==
    [kind |-> "raise", val |-> NoValue, err |-> err, calls |-> calls]

\* calc_rates that answers a rejected perturbed record with a rate of 0
calc_rates_Substitute(e, income, a) ==
    LET base_args == BaseArgs(income, a)
        fbase == compute_with_income(e, template, base_args)
    IN  IF ~fbase.form.ok THEN Raise(EngineError, <<fbase.inputs>>)
        ELSE IF a.rate \in MarginalKinds THEN
            LET next_args == NextArgs(base_args, income, a)
                fnext == compute_with_income(e, template, next_args)
            IN  IF ~fnext.form.ok
                THEN Return(Rat(0, 1), <<fbase.inputs, fnext.inputs>>)
                ELSE Return(ForwardDifference(fnext.form.l63, fbase.form.l63),
                            IF a.rate = Kind_WAGE
                            THEN <<fbase.inputs, fnext.inputs, fnext.inputs>>
                            ELSE <<fbase.inputs, fnext.inputs>>)
        ELSE IF a.rate = Kind_EFF THEN
            IF income + a.ltcg = 0
            THEN Raise("ZeroDivisionError", <<fbase.inputs>>)
            ELSE Return(EffectiveRate(fbase.form.l63, income, a.ltcg),
                        <<fbase.inputs>>)
        ELSE Return(TotalLiability(fbase.form.l63), <<fbase.inputs>>)

\* lines 66-101 for one grid point.  calls lists the records handed to F1040,
\* in call order (line 96 repeats the call of line 95).
calc_rates(e, income, a) ==
    LET base_args == BaseArgs(income, a)
        fbase == compute_with_income(e, template, base_args)
    IN  IF ~fbase.form.ok THEN Raise(EngineError, <<fbase.inputs>>)
        ELSE IF a.rate \in MarginalKinds THEN
            LET next_args == NextArgs(base_args, income, a)
                fnext == compute_with_income(e, template, next_args)
            IN  IF ~fnext.form.ok
                THEN Raise(EngineError, <<fbase.inputs, fnext.inputs>>)
                ELSE Return(ForwardDifference(fnext.form.l63, fbase.form.l63),
                            IF a.rate = Kind_WAGE
                            THEN <<fbase.inputs, fnext.inputs, fnext.inputs>>
                            ELSE <<fbase.inputs, fnext.inputs>>)
        ELSE IF a.rate = Kind_EFF THEN
            IF income + a.ltcg = 0
            THEN Raise("ZeroDivisionError", <<fbase.inputs>>)
            ELSE Return(EffectiveRate(fbase.form.l63, income, a.ltcg),
                        <<fbase.inputs>>)
        ELSE Return(TotalLiability(fbase.form.l63), <<fbase.inputs>>)

---------------------------------------------------------------------------
(* Inputs the calls are checked over *)

IncomeSet == {-10, 0, 10000, 30000, 200000, 240000}
ReTaxSet == {0, 100}
LtcgSet == {0, 10, 500}
AmtBasisAdjSet == {-50, 0}
MortgageInterestSet == {0, 100}
SpouseRatioSet == {3, 5, 15}

EngineSet ==
    {[pct |-> 25, pct2 |-> 35, bracket |-> 17950,
      reject |-> "none", limit |-> 0],
     [pct |-> 25, pct2 |-> 35, bracket |-> 17950,
      reject |-> "negative_wages", limit |-> 0],
     [pct |-> 25, pct2 |-> 35, bracket |-> 17950,
      reject |-> "wages_over", limit |-> 30000],
     [pct |-> 25, pct2 |-> 35, bracket |-> 17950,
      reject |-> "capital_gain_over", limit |-> 10],
     [pct |-> 25, pct2 |-> 35, bracket |-> 17950,
      reject |-> "mortgage_over", limit |-> 100],
     [pct |-> 25, pct2 |-> 35, bracket |-> 17950,
      reject |-> "real_estate_over", limit |-> 100]}

CallArgs ==
    [re_tax : ReTaxSet, ltcg : LtcgSet, amt_basis_adj : AmtBasisAdjSet,
     mortgage_interest : MortgageInterestSet, rate : RateKinds,
     spouse_ratio : SpouseRatioSet]

NoArgs ==
    [re_tax |-> 0, ltcg |-> 0, amt_basis_adj |-> 0, mortgage_interest |-> 0,
     rate |-> Kind_TOTAL, spouse_ratio |-> 5]

NoResult == Raise("none", <<>>)

\* the controller's variables, parked while a single call or sweep is studied
ControllerIdle ==
    /\ sliders = [re_tax |-> 0, ltcg |-> 0, amt_basis_adj |-> 0,
                  mortgage_interest |-> 0]
    /\ inputs = sliders
    /\ ydata = <<>>
    /\ delivered = <<>>
    /\ cycles = 0
    /\ changes = 0
    /\ draws = 0
    /\ cycle_start = [ydata |-> <<>>, draws |-> 0]
    /\ failed = "none"

ControllerVars ==
    <<sliders, inputs, ydata, delivered, cycles, changes, draws, cycle_start,
      failed>>

---------------------------------------------------------------------------
(* SpecCalc: one call calc_rates(income, ...), the income being grid[1] *)

InitCalc ==
    /\ eng \in EngineSet
    /\ args \in CallArgs
    /\ grid \in {<<i>> : i \in IncomeSet}
    /\ result = NoResult
    /\ pc = "call"
    /\ ControllerIdle

CallCalcRates ==
    /\ pc = "call"
    /\ result' = calc_rates(eng, grid[1], args)
    /\ pc' = "returned"
    /\ UNCHANGED <<eng, args, grid>>
    /\ UNCHANGED ControllerVars

NextCalc == CallCalcRates

SpecCalc == InitCalc /\ [][NextCalc]_vars

---------------------------------------------------------------------------
(* The vectorised calc_rates (@np.vectorize, no otypes) *)

SweepReturn(vals, calls) ==
    [kind |-> "return", val |-> vals, err |-> "none", calls |-> calls]

SweepRaise(err, calls) ==
    [kind |-> "raise", val |-> <<>>, err |-> err, calls |-> calls]

\* the element loop: grid points in order from i, each an independent call;
\* the first call that raises ends the sweep and no array exists
RECURSIVE VectorizeLoop(_, _, _, _, _, _)
VectorizeLoop(e, g, a, i, acc, calls) ==
    IF i > Len(g) THEN SweepReturn(acc, calls)
    ELSE LET r == calc_rates(e, g[i], a)
         IN  IF r.kind = "raise" THEN SweepRaise(r.err, calls \o r.calls)
             ELSE VectorizeLoop(e, g, a, i + 1, Append(acc, r.val),
                                calls \o r.calls)

\* the element loop filling the output array back to front
RECURSIVE VectorizeLoop_Reversed(_, _, _, _, _, _)
VectorizeLoop_Reversed(e, g, a, i, acc, calls) ==
    IF i > Len(g) THEN SweepReturn(acc, calls)
    ELSE LET r == calc_rates(e, g[i], a)
         IN  IF r.kind = "raise" THEN SweepRaise(r.err, calls \o r.calls)
             ELSE VectorizeLoop_Reversed(e, g, a, i + 1, <<r.val>> \o acc,
                                         calls \o r.calls)

vectorize_Reversed(e, g, a) ==
    IF Len(g) = 0 THEN SweepRaise("ValueError", <<>>)
    ELSE LET probe == calc_rates(e, g[1], a)
         IN  IF probe.kind = "raise" /\ probe.err = EngineError
             THEN SweepRaise(probe.err, probe.calls)
             ELSE VectorizeLoop_Reversed(e, g, a, 1, <<>>, probe.calls)

\* calc_rates(g, **a): an empty grid is refused; the function is first called
\* on the first grid point to learn the output type (on numpy scalars, where a
\* division by zero yields nan instead of raising), then on every point in
\* order
vectorize(e, g, a) ==
    IF Len(g) = 0 THEN SweepRaise("ValueError", <<>>)
    ELSE LET probe == calc_rates(e, g[1], a)
         IN  IF probe.kind = "raise" /\ probe.err = EngineError
             THEN SweepRaise(probe.err, probe.calls)
             ELSE VectorizeLoop(e, g, a, 1, <<>>, probe.calls)

---------------------------------------------------------------------------
(* SpecSweep: one call calc_rates(grid, rate=..., **knobs) *)

MaxGrid == 2

SweepIncomeSet == {0, 10000, 30000}

SweepArgs ==
    [re_tax : ReTaxSet, ltcg : {0, 10}, amt_basis_adj : {0},
     mortgage_interest : MortgageInterestSet, rate : RateKinds,
     spouse_ratio : {5, 15}]

RECURSIVE GridsOfLen(_)
GridsOfLen(n) ==
    IF n = 0 THEN {<<>>}
    ELSE {Append(g, i) : g \in GridsOfLen(n - 1), i \in SweepIncomeSet}

SweepGrids == UNION {GridsOfLen(n) : n \in 0..MaxGrid}

InitSweep ==
    /\ eng \in EngineSet
    /\ args \in SweepArgs
    /\ grid \in SweepGrids
    /\ result = NoResult
    /\ pc = "sweep"
    /\ ControllerIdle

CallSweep ==
    /\ pc = "sweep"
    /\ result' = vectorize(eng, grid, args)
    /\ pc' = "swept"
    /\ UNCHANGED <<eng, args, grid>>
    /\ UNCHANGED ControllerVars

NextSweep == CallSweep

SpecSweep == InitSweep /\ [][NextSweep]_vars

---------------------------------------------------------------------------
(* Spec: the script itself.  Lines 111-164: the grid, the five plot lines, *)
(* the four sliders, update() and its registration as every slider's       *)
(* on_changed callback, the first update() and the event loop.             *)

MAX_WAGES == 1000000
GridLen == 3
MaxChanges == 2

\* np.arange(MIN_WAGES, MAX_WAGES, WAGES_STEP), cut to its first GridLen points
incomes ==
    LET full == (MAX_WAGES - MIN_WAGES + WAGES_STEP - 1) \div WAGES_STEP
    IN  [i \in 1..Min(GridLen, full) |-> MIN_WAGES + (i - 1) * WAGES_STEP]

Plots == {"p_ltcg", "p_wages", "p_deduct", "p_int_deduct", "p_effective"}

\* every line is first drawn as plt.plot(incomes, incomes)
InitialYData == [p \in Plots |-> [i \in 1..Len(incomes) |-> Rat(incomes[i], 1)]]

\* valinit of the four sliders
InitialSliders ==
    [re_tax |-> MIN_RE_TAX, ltcg |-> 0, amt_basis_adj |-> 0,
     mortgage_interest |-> 0]

\* values a slider is moved to, inside its [valmin, valmax]
SliderValues ==
    [re_tax |-> {MIN_RE_TAX, 100}, ltcg |-> {MIN_LTCG, 10},
     amt_basis_adj |-> {-50, 0}, mortgage_interest |-> {0, 100}]

\* spouse_ratio is left at its default 0.5 by every call in update()
DefaultSpouseRatio == 5

\* calc_rates(incomes, rate=k, **inputs)
SweepCall(e, knobs, k) ==
    vectorize(e, incomes,
              [re_tax |-> knobs.re_tax, ltcg |-> knobs.ltcg,
               amt_basis_adj |-> knobs.amt_basis_adj,
               mortgage_interest |-> knobs.mortgage_interest,
               rate |-> k, spouse_ratio |-> DefaultSpouseRatio])

Init ==
    /\ eng \in EngineSet
    /\ args = NoArgs
    /\ grid = incomes
    /\ result = NoResult
    /\ pc = "L163"
    /\ sliders = InitialSliders
    /\ inputs = InitialSliders
    /\ ydata = InitialYData
    /\ delivered = <<>>
    /\ cycles = 0
    /\ changes = 0
    /\ draws = 0
    /\ cycle_start = [ydata |-> InitialYData, draws |-> 0]
    /\ failed = "none"

\* lines 146-151: update() is entered and snapshots the four slider values
EnterUpdate(vals) ==
    /\ inputs' = [re_tax |-> vals.re_tax,
                  mortgage_interest |-> vals.mortgage_interest,
                  amt_basis_adj |-> vals.amt_basis_adj,
                  ltcg |-> vals.ltcg]
    /\ cycles' = cycles + 1
    /\ delivered' = <<>>
    /\ failed' = "none"
    /\ cycle_start' = [ydata |-> ydata, draws |-> draws]
    /\ pc' = "L152"

\* line 163: the first update(), before plt.show()
Startup ==
    /\ pc = "L163"
    /\ EnterUpdate(sliders)
    /\ UNCHANGED <<eng, args, grid, result, sliders, ydata, changes, draws>>

\* a slider is moved while the event loop is idle: its val is set, then its
\* on_changed callback update runs (lines 159-162)
SliderChanged(s) ==
    /\ pc = "idle"
    /\ changes < MaxChanges
    /\ \E v \in SliderValues[s] \ {sliders[s]} :
          /\ sliders' = [sliders EXCEPT ![s] = v]
          /\ EnterUpdate(sliders')
    /\ changes' = changes + 1
    /\ UNCHANGED <<eng, args, grid, result, ydata, draws>>

re_tax_slider_changed == SliderChanged("re_tax")
ltcg_slider_changed == SliderChanged("ltcg")
amt_basis_adj_slider_changed == SliderChanged("amt_basis_adj")
mortgage_interest_slider_changed == SliderChanged("mortgage_interest")

\* where control goes when update() raises: the first update() is module
\* level code, so the script ends; inside a callback the GUI toolkit either
\* reports the exception and keeps its event loop running or ends with it
AfterException == IF changes = 0 THEN {"crashed"} ELSE {"idle", "crashed"}

\* SetYData that hands every array to the wage line p_wages
SetYData_WrongLine(at, p, k, next) ==
    /\ pc = at
    /\ LET r == SweepCall(eng, inputs, k)
       IN  IF r.kind = "return"
           THEN /\ ydata' = [ydata EXCEPT !["p_wages"] = r.val]
                /\ delivered' = Append(delivered, "p_wages")
                /\ pc' = next
                /\ UNCHANGED failed
           ELSE /\ failed' = p
                /\ pc' \in AfterException
                /\ UNCHANGED <<ydata, delivered>>
    /\ UNCHANGED <<eng, args, grid, result, sliders, inputs, cycles, changes,
                   draws, cycle_start>>

\* SetYData inside a try/finally that still requests the redraw when the
\* sweep raises
SetYData_DrawAnyway(at, p, k, next) ==
    /\ pc = at
    /\ LET r == SweepCall(eng, inputs, k)
       IN  IF r.kind = "return"
           THEN /\ ydata' = [ydata EXCEPT ![p] = r.val]
                /\ delivered' = Append(delivered, p)
                /\ pc' = next
                /\ UNCHANGED <<failed, draws>>
           ELSE /\ failed' = p
                /\ pc' \in AfterException
                /\ draws' = draws + 1
                /\ UNCHANGED <<ydata, delivered>>
    /\ UNCHANGED <<eng, args, grid, result, sliders, inputs, cycles, changes,
                   cycle_start>>

\* one statement  p.set_ydata(calc_rates(incomes, rate=k, **inputs))  of
\* update(): the sweep runs to its end first; set_ydata happens only if it
\* returned, and an exception leaves update() at once
SetYData(at, p, k, next) ==
    /\ pc = at
    /\ LET r == SweepCall(eng, inputs, k)
       IN  IF r.kind = "return"
           THEN /\ ydata' = [ydata EXCEPT ![p] = r.val]
                /\ delivered' = Append(delivered, p)
                /\ pc' = next
                /\ UNCHANGED failed
           ELSE /\ failed' = p
                /\ pc' \in AfterException
                /\ UNCHANGED <<ydata, delivered>>
    /\ UNCHANGED <<eng, args, grid, result, sliders, inputs, cycles, changes,
                   draws, cycle_start>>

Update152 == SetYData("L152", "p_ltcg", Kind_LTCG, "L153")
Update153 == SetYData("L153", "p_wages", Kind_WAGE, "L154")
Update154 == SetYData("L154", "p_effective", Kind_EFF, "L155")
Update155 == SetYData("L155", "p_deduct", Kind_RE, "L156")
Update156 == SetYData("L156", "p_int_deduct", Kind_INT, "L157")

\* line 157: fig.canvas.draw_idle(); update() returns to the event loop (or,
\* the first time, to plt.show(), which starts it)
Update157 ==
    /\ pc = "L157"
    /\ draws' = draws + 1
    /\ pc' = "idle"
    /\ UNCHANGED <<eng, args, grid, result, sliders, inputs, ydata, delivered,
                   cycles, changes, cycle_start, failed>>

Next ==
    \/ Startup
    \/ re_tax_slider_changed
    \/ ltcg_slider_changed
    \/ amt_basis_adj_slider_changed
    \/ mortgage_interest_slider_changed
    \/ Update152
    \/ Update153
    \/ Update154
    \/ Update155
    \/ Update156
    \/ Update157

Spec == Init /\ [][Next]_vars

---------------------------------------------------------------------------
(* Properties of one calc_rates call (SpecCalc) *)

Returned == pc = "returned"

\* the arguments a record was built from, read back from its fields
ArgsOf(rec) ==
    [incomes |-> rec.wages, capital_gains |-> rec.capital_gain_long,
     amt_basis_adj |-> rec.amt_basis_adjustment,
     mortgage_interest |-> rec.F1040sa.l10, re_tax |-> rec.real_estate_taxes]

DiffArgs(b, n) == {f \in DOMAIN ArgsOf(b) : ArgsOf(b)[f] # ArgsOf(n)[f]}

DiffFields(b, n) == {f \in DOMAIN b : b[f] # n[f]}

IncomeFields ==
    {"wages", "wages_medicare", "medicare_withheld", "wages_ss",
     "state_withholding"}

\* the argument a marginal kind perturbs, and the record fields made from it
DimensionOf(k) ==
    CASE k = Kind_LTCG -> "capital_gains"
      [] k = Kind_INT -> "mortgage_interest"
      [] k = Kind_RE -> "re_tax"
      [] k = Kind_WAGE -> "incomes"

FieldsOf(k) ==
    CASE k = Kind_LTCG -> {"capital_gain_long", "state_withholding"}
      [] k = Kind_INT -> {"F1040sa"}
      [] k = Kind_RE -> {"real_estate_taxes"}
      [] k = Kind_WAGE -> IncomeFields

\* the record the stated contract calls for: the arguments of the call with
\* the dimension of kind k moved by d
ExpectedRecord(income, a, k, d) ==
    LET w == IF k = Kind_WAGE THEN income + d ELSE income
    IN  [status |-> "JOINT", exemptions |-> 2, disable_rounding |-> TRUE,
         real_estate_taxes |-> a.re_tax + (IF k = Kind_RE THEN d ELSE 0),
         wages |-> <<w * a.spouse_ratio, w * (RATIO_DEN - a.spouse_ratio)>>,
         wages_medicare |->
             <<w * a.spouse_ratio, w * (RATIO_DEN - a.spouse_ratio)>>,
         medicare_withheld |->
             <<w * a.spouse_ratio * MEDICARE_RATE,
               w * (RATIO_DEN - a.spouse_ratio) * MEDICARE_RATE>>,
         wages_ss |->
             <<IF w * a.spouse_ratio > 117000 * RATIO_DEN
               THEN 117000 * RATIO_DEN ELSE w * a.spouse_ratio,
               IF w * (RATIO_DEN - a.spouse_ratio) > 117000 * RATIO_DEN
               THEN 117000 * RATIO_DEN ELSE w * (RATIO_DEN - a.spouse_ratio)>>,
         state_withholding |->
             w * RATIO_DEN
             + (a.ltcg + (IF k = Kind_LTCG THEN d ELSE 0)) * RATIO_DEN,
         capital_gain_long |-> a.ltcg + (IF k = Kind_LTCG THEN d ELSE 0),
         amt_basis_adjustment |-> a.amt_basis_adj,
         F1040sa |-> [l10 |-> a.mortgage_interest
                                 + (IF k = Kind_INT THEN d ELSE 0)]]

\* C1: in a call of a marginal kind that built both records, the base and the
\* perturbed record come from argument lists that differ in exactly the one
\* argument of that kind; the record fields that differ are among those made
\* from that argument (for the wage kind the five income-derived fields), and
\* the template fields, the AMT basis adjustment and the fields of every other
\* dimension are the same in both.
C1_Isolation ==
    (Returned /\ args.rate \in MarginalKinds /\ Len(result.calls) >= 2) =>
        LET b == result.calls[1]
            n == result.calls[2]
        IN  /\ DiffArgs(b, n) = {DimensionOf(args.rate)}
            /\ DiffFields(b, n) \subseteq FieldsOf(args.rate)
            /\ \A f \in {"status", "exemptions", "disable_rounding"} :
                  b[f] = template[f] /\ n[f] = template[f]
            /\ b.amt_basis_adjustment = args.amt_basis_adj
            /\ n.amt_basis_adjustment = args.amt_basis_adj
            /\ \A i \in 3..Len(result.calls) : result.calls[i] = n
            /\ \A r \in {b, n} :
                  r.wages[1] * (RATIO_DEN - args.spouse_ratio)
                      = r.wages[2] * args.spouse_ratio

\* a wage-kind call whose two records differ in all five income-derived fields
C1_Witness ==
    /\ Returned
    /\ args.rate = Kind_WAGE
    /\ result.kind = "return"
    /\ DiffFields(result.calls[1], result.calls[2]) = IncomeFields

\* C2: a marginal kind returns (nextLiability - baseLiability) / DELTA with
\* DELTA = 10, both liabilities being line '63' of the Tax Engine, the base at
\* the supplied arguments and the next at the same arguments with the kind's
\* dimension raised by 10; for the wage kind the perturbed wages are
\* split(income + 10, ratio).
C2_ForwardDifference ==
    (Returned /\ args.rate \in MarginalKinds /\ result.kind = "return") =>
        LET b == ExpectedRecord(grid[1], args, args.rate, 0)
            n == ExpectedRecord(grid[1], args, args.rate, 10)
        IN  /\ DELTA = 10
            /\ result.calls[1] = b
            /\ result.calls[2] = n
            /\ result.val = Rat(F1040(eng, n).l63 - F1040(eng, b).l63,
                                10 * Line63Den)

\* a wage-kind call with an uneven split and a non-zero rate
C2_Witness ==
    /\ Returned
    /\ args.rate = Kind_WAGE
    /\ args.spouse_ratio = 3
    /\ result.kind = "return"
    /\ result.val.num # 0

\* C3 (as stated): EFFECTIVE with income + ltcg = 0 does not end in a division
\* fault.
C3_NoDivisionFault ==
    (Returned /\ args.rate = Kind_EFF /\ grid[1] + args.ltcg = 0) =>
        result.err # "ZeroDivisionError"

\* C4: TOTAL returns line '63' of the record built from the arguments, and only
\* that record is built; EFFECTIVE, for income + ltcg # 0, returns that
\* liability divided by (income + ltcg).
C4_TotalEffective ==
    LET b == ExpectedRecord(grid[1], args, args.rate, 0)
        f == F1040(eng, b)
    IN  (Returned /\ args.rate \in {Kind_TOTAL, Kind_EFF} /\ f.ok
            /\ (args.rate = Kind_EFF => grid[1] + args.ltcg # 0)) =>
            /\ result.kind = "return"
            /\ result.calls = <<b>>
            /\ args.rate = Kind_TOTAL => result.val = Rat(f.l63, Line63Den)
            /\ args.rate = Kind_EFF =>
                  result.val = Rat(f.l63, Line63Den * (grid[1] + args.ltcg))

\* an EFFECTIVE call with capital gains in the denominator and a non-zero rate
C4_Witness ==
    /\ Returned
    /\ args.rate = Kind_EFF
    /\ args.ltcg # 0
    /\ result.kind = "return"
    /\ result.val.num # 0

\* C9: in every record built, each earner's Social-Security wage is
\* min(117000, that earner's wage), earner by earner; wages and Medicare wages
\* are the per-earner amounts, uncapped, negative ones included.
C9_PerEarnerCap ==
    Returned =>
        \A c \in 1..Len(result.calls) :
            LET rec == result.calls[c]
                k == IF c = 1 THEN Kind_TOTAL ELSE args.rate
                w == ExpectedRecord(grid[1], args, k, DELTA).wages
            IN  /\ rec.wages = w
                /\ rec.wages_medicare = w
                /\ \A i \in 1..2 :
                      rec.wages_ss[i] =
                          IF w[i] > 117000 * RATIO_DEN
                          THEN 117000 * RATIO_DEN ELSE w[i]

\* both earners above the cap: the two entries sum to 234000
C9_Witness ==
    /\ Returned
    /\ result.calls[1].wages_ss[1] + result.calls[1].wages_ss[2]
          = 234000 * RATIO_DEN

---------------------------------------------------------------------------
(* Properties of one sweep (SpecSweep) *)

Swept == pc = "swept"

PointRecords(i) ==
    {ExpectedRecord(grid[i], args, args.rate, 0)}
    \cup (IF args.rate \in MarginalKinds
          THEN {ExpectedRecord(grid[i], args, args.rate, DELTA)} ELSE {})

\* C8: a record the Tax Engine rejects ends the call and the sweep with the
\* engine's own failure: the rejected record is the last one handed to the
\* engine (no retry, nothing evaluated after it), the sweep raises that failure
\* and carries no rate value; and a sweep that returns rates has met no
\* rejected record at any grid point.
C8_FailurePropagates ==
    Swept =>
        /\ \A c \in 1..Len(result.calls) :
              ~F1040(eng, result.calls[c]).ok =>
                  /\ c = Len(result.calls)
                  /\ result.kind = "raise"
                  /\ result.err = EngineError
                  /\ result.val = <<>>
        /\ result.kind = "return" =>
              \A i \in 1..Len(grid) :
                  \A rec \in PointRecords(i) : F1040(eng, rec).ok
        /\ result.err = EngineError =>
              /\ Len(result.calls) > 0
              /\ ~F1040(eng, result.calls[Len(result.calls)]).ok

\* the perturbed record of the second grid point is rejected after the first
\* point went through
C8_Witness ==
    /\ Swept
    /\ Len(grid) = 2
    /\ result.err = EngineError
    /\ Len(result.calls) > 4
    /\ F1040(eng, ExpectedRecord(grid[2], args, args.rate, 0)).ok

---------------------------------------------------------------------------
(* Properties of the update cycle (Spec) *)

\* the rate kind each plot line shows
KindOfPlot ==
    [p \in Plots |->
        CASE p = "p_ltcg" -> Kind_LTCG
          [] p = "p_wages" -> Kind_WAGE
          [] p = "p_effective" -> Kind_EFF
          [] p = "p_deduct" -> Kind_RE
          [] p = "p_int_deduct" -> Kind_INT]

\* the order of the five statements of update()
DeliveryOrder ==
    <<"p_ltcg", "p_wages", "p_effective", "p_deduct", "p_int_deduct">>

CycleOver == pc \in {"idle", "crashed"}

TimesDelivered(p) == Cardinality({j \in 1..Len(delivered) : delivered[j] = p})

C7_SinkMatchesKnobs ==
    pc = "idle" =>
        \A p \in Plots :
            LET r == SweepCall(eng, sliders, KindOfPlot[p])
            IN  r.kind = "return" /\ ydata[p] = r.val

\* C7, the part that holds: after a cycle that ran to its end, with the event
\* loop idle, every line holds the array of the knob values currently held.
C7_AfterCompletedCycle ==
    (pc = "idle" /\ failed = "none") =>
        \A p \in Plots :
            LET r == SweepCall(eng, sliders, KindOfPlot[p])
            IN  r.kind = "return" /\ ydata[p] = r.val

\* C10: within a cycle the lines are delivered in the order p_ltcg, p_wages,
\* p_effective, p_deduct, p_int_deduct, each with a whole array; the lines
\* delivered so far hold the arrays of this cycle's knob values and the others
\* the arrays they held when the cycle began; when the sweep of the k-th kind
\* fails, exactly the k-1 lines before it were delivered, nothing is rolled
\* back and no redraw is requested.
C10_OrderAndPartialFailure ==
    /\ Len(delivered) <= Len(DeliveryOrder)
    /\ \A j \in 1..Len(delivered) :
          /\ delivered[j] = DeliveryOrder[j]
          /\ Len(ydata[delivered[j]]) = Len(incomes)
          /\ cycles >= 1 =>
                ydata[delivered[j]]
                    = SweepCall(eng, inputs, KindOfPlot[delivered[j]]).val
    /\ \A j \in (Len(delivered) + 1)..Len(DeliveryOrder) :
          ydata[DeliveryOrder[j]] = cycle_start.ydata[DeliveryOrder[j]]
    /\ failed # "none" =>
          /\ CycleOver
          /\ Len(delivered) < Len(DeliveryOrder)
          /\ failed = DeliveryOrder[Len(delivered) + 1]
          /\ draws = cycle_start.draws
    /\ (failed = "none" /\ pc = "idle") => draws = cycle_start.draws + 1
    /\ (failed = "none" /\ pc # "idle") => draws = cycle_start.draws

\* a cycle started by a slider change failed at the fifth kind with the event
\* loop still running: four lines are new, p_int_deduct kept its old array
C10_Witness ==
    /\ pc = "idle"
    /\ failed = "p_int_deduct"
    /\ Len(delivered) = 4
    /\ ydata["p_ltcg"] # cycle_start.ydata["p_ltcg"]
    /\ ydata["p_int_deduct"] = cycle_start.ydata["p_int_deduct"]

====
